---- MODULE Spec2Model ----
(***************************************************************************)
(* Lead allocation and order lifecycle of leadset-admin: the SQLite        *)
(* database wrapper (database/simple), the orders and leads routes and     *)
(* the automation dispatcher.  One step of a handler is one statement      *)
(* run on the single shared connection, followed by the JavaScript that    *)
(* runs until the handler awaits its next statement.                       *)
(***************************************************************************)
EXTENDS Integers, Sequences, FiniteSets, TLC

VARIABLES db, journal, inTx, now, req, crashed, requests, overridden, trip,
          reply

vars == <<db, journal, inTx, now, req, crashed, requests, overridden, trip,
          reply>>

(***************************************************************************)
(* Bounds of the model.                                                    *)
(***************************************************************************)
MaxNewLeads == 2
MaxTime == 2
MaxRequests == 2

\* The concurrent request handlers (HTTP requests in flight).
Handlers == {1, 2}

NULL == 0

\* Region codes the inputs are drawn from: a region seeded with a cap row,
\* and one that has no cap row until setCaps inserts it.
SeededStates == {"CA", "NY", "TX", "FL", "IL"}
InputStates == {"CA", "WA"}
CapValues == {-1, 0, 1}

DefaultStates == <<"CA", "NY", "TX", "FL", "IL">>
DefaultCap == 10
BatchLimit == 5

Max(a, b) == IF a >= b THEN a ELSE b
Min(a, b) == IF a <= b THEN a ELSE b

(***************************************************************************)
(* Rows.                                                                   *)
(***************************************************************************)
NewLead(state, t) ==
  [state |-> state, status |-> "unassigned", order_id |-> NULL, created_at |-> t]

NewOrder ==
  [status |-> "pending", fulfilled_at |-> NULL]


(***************************************************************************)
(* Statements, as functions of the tables they read and write.             *)
(***************************************************************************)
\* INSERT INTO orders: AUTOINCREMENT takes the next id of sqlite_sequence.
InsertOrder(d) ==
  [d EXCEPT !.orders = d.orders @@ ((d.order_seq + 1) :> NewOrder),
            !.order_seq = d.order_seq + 1]

\* INSERT INTO leads (name, email, phone, state).
InsertLead(d, state, t) ==
  [d EXCEPT !.leads = Append(d.leads, NewLead(state, t))]

\* SELECT COUNT(*) FROM leads WHERE state = ? AND status = 'assigned'.
CountAssigned(leads, state) ==
  Cardinality({k \in DOMAIN leads :
                 leads[k].state = state /\ leads[k].status = "assigned"})

Unassigned(leads, state) ==
  {k \in DOMAIN leads : leads[k].state = state /\ leads[k].status = "unassigned"}

\* SELECT * FROM leads WHERE state = ? AND status = 'unassigned'
\* ORDER BY created_at ASC LIMIT ?: every row sequence the statement may
\* return.  Rows that share created_at come in an order SQL leaves open.
OldestUnassigned(leads, state, limit) ==
  LET U == Unassigned(leads, state)
      n == Min(limit, Cardinality(U))
  IN  {r \in [1..n -> U] :
         /\ \A a, b \in 1..n : a < b =>
              /\ r[a] # r[b]
              /\ leads[r[a]].created_at <= leads[r[b]].created_at
         /\ \A u \in U : (\A a \in 1..n : r[a] # u) =>
              \A a \in 1..n : leads[r[a]].created_at <= leads[u].created_at}

\* UPDATE leads SET status = 'assigned', order_id = ? WHERE id = ?.
AssignLead(leads, id, oid) ==
  [k \in DOMAIN leads |->
     IF k = id THEN [leads[k] EXCEPT !.status = "assigned", !.order_id = oid]
     ELSE leads[k]]

\* UPDATE leads SET status = 'fulfilled' WHERE order_id = ?.
FulfillLeads(leads, oid) ==
  [k \in DOMAIN leads |->
     IF leads[k].order_id = oid THEN [leads[k] EXCEPT !.status = "fulfilled"]
     ELSE leads[k]]

\* A variant of the statement below that resets status and leaves order_id.
ReturnLeadsKeepingRef(leads, oid) ==
  [k \in DOMAIN leads |->
     IF leads[k].order_id = oid
     THEN [leads[k] EXCEPT !.status = "unassigned"]
     ELSE leads[k]]

\* UPDATE leads SET status = 'unassigned', order_id = NULL WHERE order_id = ?.
ReturnLeads(leads, oid) ==
  [k \in DOMAIN leads |->
     IF leads[k].order_id = oid
     THEN [leads[k] EXCEPT !.status = "unassigned", !.order_id = NULL]
     ELSE leads[k]]

\* The status update, made to clear the order reference of a lead it
\* returns to stock.
SetLeadStatusAndRef(leads, id, status) ==
  [k \in DOMAIN leads |->
     IF k = id
     THEN [leads[k] EXCEPT !.status = status,
                           !.order_id = IF status = "unassigned"
                                        THEN NULL ELSE leads[k].order_id]
     ELSE leads[k]]

\* UPDATE leads SET status = ? WHERE id = ?.
SetLeadStatus(leads, id, status) ==
  [k \in DOMAIN leads |->
     IF k = id THEN [leads[k] EXCEPT !.status = status] ELSE leads[k]]

\* UPDATE orders SET status = 'fulfilled', fulfilled_at = datetime("now").
FulfillOrderRow(orders, id, t) ==
  [o \in DOMAIN orders |->
     IF o = id THEN [orders[o] EXCEPT !.status = "fulfilled", !.fulfilled_at = t]
     ELSE orders[o]]

\* UPDATE orders SET status = 'cancelled' WHERE id = ?.
CancelOrderRow(orders, id) ==
  [o \in DOMAIN orders |->
     IF o = id THEN [orders[o] EXCEPT !.status = "cancelled"] ELSE orders[o]]

\* DELETE FROM orders WHERE id = ?.
DeleteOrderRow(orders, id) ==
  [o \in DOMAIN orders \ {id} |-> orders[o]]

\* INSERT INTO state_caps (state, max_leads) VALUES (?, ?) ON CONFLICT (state)
\* DO UPDATE SET max_leads = ?: the statement has three placeholders and is
\* given two values, so the third binds NULL and the update of an existing
\* row fails on max_leads NOT NULL.  TRUE when the statement succeeds.
UpsertSucceeds(state_caps, entry) ==
  entry.state \notin DOMAIN state_caps

UpsertCap(state_caps, entry) ==
  state_caps @@ (entry.state :> entry.max_leads)

\* const maxLeads = stateCaps[state] || 10.
MaxLeadsOf(stateCaps, state) ==
  IF state \in DOMAIN stateCaps /\ stateCaps[state] # 0
  THEN stateCaps[state] ELSE DefaultCap

\* Math.min(Math.max(0, maxLeads - currentCount), 5).
LeadsToAssign(maxLeads, currentCount) ==
  Min(Max(0, maxLeads - currentCount), BatchLimit)

\* const states = requested_states || ['CA', 'NY', 'TX', 'FL', 'IL']:
\* an array, the empty one included, is truthy.
ResolveStates(requested_states) ==
  IF requested_states.given THEN requested_states.list ELSE DefaultStates

(***************************************************************************)
(* The databases a run starts from.                                        *)
(***************************************************************************)
\* The database after initialize(): the five seeded caps and the ten sample
\* leads, all inserted by one statement and so sharing one created_at.
SampleStates == <<"CA", "CA", "NY", "NY", "TX", "TX", "FL", "FL", "IL", "IL">>

Initialized ==
  [leads      |-> [k \in 1..Len(SampleStates) |-> NewLead(SampleStates[k], 1)],
   orders     |-> [o \in {} |-> NewOrder],
   order_seq  |-> 0,
   state_caps |-> [s \in SeededStates |-> DefaultCap]]

\* The sample leads went out with the first order: POST /orders without
\* requested_states assigned them all (two per state, under the batch limit
\* and the cap), and PATCH /orders/1/fulfill fulfilled them.
FirstOrderFulfilled ==
  LET d1 == InsertOrder(Initialized)
      d2 == [d1 EXCEPT !.leads = [k \in DOMAIN d1.leads |->
                                    AssignLead(d1.leads, k, 1)[k]]]
  IN  [d2 EXCEPT !.orders = FulfillOrderRow(d2.orders, 1, 1),
                 !.leads = FulfillLeads(d2.leads, 1)]

\* POST /leads, once per entry of times, each at its own created_at.
RECURSIVE WithLeads(_, _, _)
WithLeads(d, state, times) ==
  IF times = <<>> THEN d
  ELSE WithLeads(InsertLead(d, state, Head(times)), state, Tail(times))

\* created_at of the leads a run starts with: loaded in one batch, in the
\* second the sample leads were.
LeadTimes == {[k \in 1..n |-> 1] : n \in 0..MaxNewLeads}

\* The databases a run starts from: after the first order, with the leads
\* of WA that POST /leads added since, and with or without a cap row for WA
\* that PUT /leads/caps inserted.
InitialDbs ==
  {[d EXCEPT !.state_caps = caps] :
     d \in {WithLeads(FirstOrderFulfilled, "WA", t) : t \in LeadTimes},
     caps \in {FirstOrderFulfilled.state_caps} \cup
              {UpsertCap(FirstOrderFulfilled.state_caps,
                         [state |-> "WA", max_leads |-> m]) : m \in CapValues}}

(***************************************************************************)
(* Request handlers.                                                       *)
(***************************************************************************)
NoStates == [given |-> FALSE, list |-> <<>>]
NoCaps == [s \in {} |-> 0]

Idle ==
  [op |-> "idle", pc |-> "idle",
   requested_states |-> NoStates, id |-> NULL, action |-> "", caps |-> <<>>,
   lastID |-> NULL, order |-> NULL, stateCaps |-> NoCaps, states |-> <<>>,
   i |-> 0, leadsToAssign |-> 0, rows |-> <<>>, j |-> 0, assignedLeads |-> <<>>,
   error |-> "", message |-> "", attached |-> {}, customer |-> {}]

\* customer_name and customer_email of the request body: the fields that
\* are there and not empty.
Customers == SUBSET {"customer_name", "customer_email"}

\* The condition with the email left out.
ValidCustomerByName(customer) == "customer_name" \in customer

\* !customer_name || !customer_email does not hold.
ValidCustomer(customer) ==
  "customer_name" \in customer /\ "customer_email" \in customer

\* The response of the latest request that was answered without a
\* transaction: the route, what it was asked and the error it answered, ""
\* for none.
NoReply ==
  [op |-> "", customer |-> {}, id |-> NULL, status |-> "", error |-> ""]

\* requested_states of the request body: absent, or an array.
RequestedStates ==
  {NoStates} \cup
  {[given |-> TRUE, list |-> l] : l \in {<<>>, <<"WA">>, <<"WA", "WA">>}}

\* The caps object of PUT /caps, as its entries in Object.entries order.
CapsBodies ==
  {<<[state |-> "WA", max_leads |-> m]>> : m \in CapValues} \cup
  {<<[state |-> "OR", max_leads |-> 1], [state |-> "WA", max_leads |-> 1]>>}

\* The id of a request: an order that exists, or the next id, which does not.
OrderIds == DOMAIN db.orders \cup {db.order_seq + 1}

\* What is durable: the tables as of the last COMMIT while a transaction is
\* open, the tables themselves otherwise.
Committed == IF inTx THEN journal ELSE db

\* A statement that writes: inside the open transaction if there is one,
\* in autocommit mode otherwise.
Write(d) ==
  /\ db' = d
  /\ journal' = IF inTx THEN journal ELSE d
  /\ inTx' = inTx

Read == UNCHANGED <<db, journal, inTx>>

\* db.run('BEGIN TRANSACTION') followed, in the same serialized section, by
\* the first statement of the callback.  BEGIN is run without a callback:
\* when a transaction is already open on the connection it fails, nobody is
\* told, and the statements that follow run inside the open transaction.
BeginThenWrite(d) ==
  /\ db' = d
  /\ journal' = IF inTx THEN journal ELSE db
  /\ inTx' = TRUE

BeginThenRead == BeginThenWrite(db)

Become(h, r) == req' = [req EXCEPT ![h] = r]

\* For the properties: the leads that reference the order of a request when
\* the request begins.
Attached(id) == {k \in DOMAIN db.leads : db.leads[k].order_id = id}

Throw(r, error) ==
  [Idle EXCEPT !.op = r.op, !.pc = "rollback", !.error = error,
              !.id = r.id, !.lastID = r.lastID]

\* A request that arrives takes the first free handler.
Ready(h) ==
  /\ ~crashed /\ requests < MaxRequests
  /\ req[h].pc = "idle"
  /\ \A g \in Handlers : g < h => req[g].pc # "idle"
At(h, op, pc) == ~crashed /\ req[h].op = op /\ req[h].pc = pc

(***************************************************************************)
(* POST /orders and the create_order command.                              *)
(***************************************************************************)
\* for (const state of states): the next entry, or the end of the callback.
NextEntry(r, i) ==
  [r EXCEPT !.pc = IF i > Len(r.states) THEN "commit" ELSE "count",
            !.i = i, !.leadsToAssign = 0, !.rows = <<>>, !.j = 0]

\* Without a customer name or email: 400 (an Error thrown, for the command)
\* before the transaction.  Otherwise BEGIN; INSERT INTO orders
\* (customer_name, customer_email).
CreateOrder(h, customer, requested_states) ==
  /\ Ready(h)
  /\ IF ValidCustomer(customer)
     THEN /\ BeginThenWrite(InsertOrder(db))
          /\ Become(h, [Idle EXCEPT !.op = "createOrder", !.pc = "selectOrder",
                                    !.customer = customer,
                                    !.requested_states = requested_states,
                                    !.lastID = db.order_seq + 1])
          /\ trip' = IF trip.on /\ trip.before = <<>>
                     THEN [trip EXCEPT !.before = db.leads,
                                       !.orders = DOMAIN db.orders,
                                       !.requested_states = requested_states]
                     ELSE trip
          /\ UNCHANGED reply
     ELSE /\ reply' = [NoReply EXCEPT !.op = "createOrder",
                                      !.customer = customer,
                                      !.error = "Customer name and email are required"]
          /\ UNCHANGED <<db, journal, inTx, req, trip>>
  /\ requests' = requests + 1 /\ UNCHANGED <<now, crashed, overridden>>

\* SELECT * FROM orders WHERE id = lastID; order = rows[0], which is
\* undefined when the row is gone.
SelectOrder(h) ==
  /\ At(h, "createOrder", "selectOrder")
  /\ Read
  /\ Become(h, [req[h] EXCEPT !.pc = "selectCaps",
                  !.order = IF req[h].lastID \in DOMAIN db.orders
                            THEN req[h].lastID ELSE NULL])
  /\ UNCHANGED <<now, crashed, requests, overridden, trip, reply>>

\* SELECT state, max_leads FROM state_caps; then the states default.
SelectCaps(h) ==
  /\ At(h, "createOrder", "selectCaps")
  /\ Read
  /\ Become(h, NextEntry([req[h] EXCEPT !.stateCaps = db.state_caps,
                            !.states = ResolveStates(req[h].requested_states)], 1))
  /\ UNCHANGED <<now, crashed, requests, overridden, trip, reply>>

\* SELECT COUNT(*) of the assigned leads of the state; leadsToAssign.
CountLeads(h) ==
  /\ At(h, "createOrder", "count")
  /\ Read
  /\ LET r == req[h]
         state == r.states[r.i]
         maxLeads == MaxLeadsOf(r.stateCaps, state)
         n == LeadsToAssign(maxLeads, CountAssigned(db.leads, state))
     IN  Become(h, IF n > 0
                   THEN [r EXCEPT !.pc = "selectLeads", !.leadsToAssign = n]
                   ELSE NextEntry(r, r.i + 1))
  /\ UNCHANGED <<now, crashed, requests, overridden, trip, reply>>

\* The oldest unassigned leads of the state.  With no row the loop goes on;
\* with rows, the first UPDATE reads order.id, a TypeError when order is
\* undefined.
SelectLeads(h) ==
  /\ At(h, "createOrder", "selectLeads")
  /\ Read
  /\ LET r == req[h]
     IN  \E rows \in OldestUnassigned(db.leads, r.states[r.i], r.leadsToAssign) :
           Become(h, IF rows = <<>> THEN NextEntry(r, r.i + 1)
                     ELSE IF r.order = NULL THEN Throw(r, "TypeError")
                     ELSE [r EXCEPT !.pc = "updateLead", !.rows = rows, !.j = 1])
  /\ UNCHANGED <<now, crashed, requests, overridden, trip, reply>>

\* UPDATE leads SET status = 'assigned', order_id = order.id WHERE id = lead.id;
\* assignedLeads.push(lead).
UpdateLead(h) ==
  /\ At(h, "createOrder", "updateLead")
  /\ LET r == req[h]
         lead == r.rows[r.j]
         pushed == [r EXCEPT !.assignedLeads = Append(r.assignedLeads, lead)]
     IN  /\ Write([db EXCEPT !.leads = AssignLead(db.leads, lead, r.order)])
         /\ Become(h, IF r.j < Len(r.rows) THEN [pushed EXCEPT !.j = r.j + 1]
                      ELSE NextEntry(pushed, r.i + 1))
  /\ UNCHANGED <<now, crashed, requests, overridden, trip, reply>>

(***************************************************************************)
(* PATCH /orders/:id/fulfill, fulfill_order, and one_time_rule.            *)
(***************************************************************************)
\* The two guards of the route and of fulfill_order on the row selected:
\* the error thrown, "" for none.
FulfillGuards(orders, id) ==
  IF id \notin DOMAIN orders THEN "Order not found"
  ELSE IF orders[id].status = "fulfilled" THEN "Order already fulfilled"
  ELSE ""

\* BEGIN; SELECT * FROM orders WHERE id = ?; the two guards.
FulfillOrder(h, id) ==
  /\ Ready(h)
  /\ BeginThenRead
  /\ LET r == [Idle EXCEPT !.op = "fulfillOrder", !.id = id,
                           !.attached = Attached(id)]
     IN  Become(h, IF FulfillGuards(db.orders, id) # ""
                   THEN Throw(r, FulfillGuards(db.orders, id))
                   ELSE [r EXCEPT !.pc = "updateOrder"])
  /\ requests' = requests + 1 /\ UNCHANGED <<now, crashed, overridden, trip, reply>>

\* executeOneTimeRule: BEGIN; SELECT the order; switch (action).  An order
\* already in the requested status makes the callback return a message.
OneTimeRule(h, id, action) ==
  /\ Ready(h)
  /\ BeginThenRead
  /\ LET r == [Idle EXCEPT !.op = "oneTimeRule", !.id = id, !.action = action,
                           !.attached = Attached(id)]
     IN  Become(h,
           IF id \notin DOMAIN db.orders THEN Throw(r, "Order not found")
           ELSE IF action = "fulfill"
                THEN IF db.orders[id].status = "fulfilled"
                     THEN [r EXCEPT !.pc = "commit", !.message = "Order already fulfilled"]
                     ELSE [r EXCEPT !.pc = "updateOrder"]
           ELSE IF action = "cancel"
                THEN IF db.orders[id].status = "cancelled"
                     THEN [r EXCEPT !.pc = "commit", !.message = "Order already cancelled"]
                     ELSE [r EXCEPT !.pc = "cancelOrder"]
           ELSE Throw(r, "Invalid action"))
  /\ requests' = requests + 1 /\ UNCHANGED <<now, crashed, overridden, trip, reply>>

\* UPDATE orders SET status = 'fulfilled', fulfilled_at = datetime("now").
UpdateOrder(h) ==
  /\ ~crashed /\ req[h].pc = "updateOrder"
  /\ Write([db EXCEPT !.orders = FulfillOrderRow(db.orders, req[h].id, now)])
  /\ Become(h, [req[h] EXCEPT !.pc = "updateLeads"])
  /\ UNCHANGED <<now, crashed, requests, overridden, trip, reply>>

\* UPDATE leads SET status = 'fulfilled' WHERE order_id = ?.
UpdateLeads(h) ==
  /\ ~crashed /\ req[h].pc = "updateLeads"
  /\ Write([db EXCEPT !.leads = FulfillLeads(db.leads, req[h].id)])
  /\ Become(h, IF req[h].op = "fulfillOrder"
               THEN [req[h] EXCEPT !.pc = "selectUpdated"]
               ELSE [req[h] EXCEPT !.pc = "commit",
                                   !.message = "Order fulfilled successfully"])
  /\ UNCHANGED <<now, crashed, requests, overridden, trip, reply>>

\* SELECT * FROM orders WHERE id = ?; return updatedOrder.rows[0].
SelectUpdated(h) ==
  /\ At(h, "fulfillOrder", "selectUpdated")
  /\ Read
  /\ Become(h, [req[h] EXCEPT !.pc = "commit",
                  !.order = IF req[h].id \in DOMAIN db.orders
                            THEN req[h].id ELSE NULL])
  /\ UNCHANGED <<now, crashed, requests, overridden, trip, reply>>

\* UPDATE orders SET status = 'cancelled' WHERE id = ?.
CancelOrder(h) ==
  /\ At(h, "oneTimeRule", "cancelOrder")
  /\ Write([db EXCEPT !.orders = CancelOrderRow(db.orders, req[h].id)])
  /\ Become(h, [req[h] EXCEPT !.pc = "returnLeads"])
  /\ UNCHANGED <<now, crashed, requests, overridden, trip, reply>>

(***************************************************************************)
(* DELETE /orders/:id and delete_order.                                    *)
(***************************************************************************)
DeleteOrder(h, id) ==
  /\ Ready(h)
  /\ BeginThenRead
  /\ LET r == [Idle EXCEPT !.op = "deleteOrder", !.id = id,
                           !.attached = Attached(id)]
     IN  Become(h, IF id \notin DOMAIN db.orders THEN Throw(r, "Order not found")
                   ELSE [r EXCEPT !.pc = "returnLeads"])
  /\ requests' = requests + 1 /\ UNCHANGED <<now, crashed, overridden, trip, reply>>

\* UPDATE leads SET status = 'unassigned', order_id = NULL WHERE order_id = ?.
ReturnToStock(h) ==
  /\ ~crashed /\ req[h].pc = "returnLeads"
  /\ Write([db EXCEPT !.leads = ReturnLeads(db.leads, req[h].id)])
  /\ Become(h, IF req[h].op = "deleteOrder"
               THEN [req[h] EXCEPT !.pc = "deleteOrder"]
               ELSE [req[h] EXCEPT !.pc = "commit",
                       !.message = "Order cancelled and leads returned to stock"])
  /\ UNCHANGED <<now, crashed, requests, overridden, trip, reply>>

\* DELETE FROM orders WHERE id = ?.
DeleteRow(h) ==
  /\ At(h, "deleteOrder", "deleteOrder")
  /\ Write([db EXCEPT !.orders = DeleteOrderRow(db.orders, req[h].id)])
  /\ Become(h, [req[h] EXCEPT !.pc = "commit",
                  !.message = "Order deleted and leads returned to stock"])
  /\ UNCHANGED <<now, crashed, requests, overridden, trip, reply>>

(***************************************************************************)
(* PUT /leads/caps.                                                        *)
(***************************************************************************)
\* for (const [state, maxLeads] of Object.entries(caps)): the next entry.
NextCap(r, i) ==
  [r EXCEPT !.pc = IF i > Len(r.caps) THEN "commit" ELSE "upsert", !.i = i]

\* BEGIN; the upsert of the first entry, if the object has one.
SetCaps(h, caps) ==
  /\ Ready(h)
  /\ LET r == [Idle EXCEPT !.op = "setCaps", !.caps = caps]
     IN  IF caps = <<>>
         THEN BeginThenRead /\ Become(h, NextCap(r, 1))
         ELSE IF UpsertSucceeds(db.state_caps, caps[1])
         THEN /\ BeginThenWrite([db EXCEPT !.state_caps = UpsertCap(db.state_caps, caps[1])])
              /\ Become(h, NextCap(r, 2))
         ELSE BeginThenRead /\ Become(h, Throw(r, "SQLITE_CONSTRAINT"))
  /\ requests' = requests + 1 /\ UNCHANGED <<now, crashed, overridden, trip, reply>>

Upsert(h) ==
  /\ At(h, "setCaps", "upsert")
  /\ LET r == req[h]
     IN  IF UpsertSucceeds(db.state_caps, r.caps[r.i])
         THEN /\ Write([db EXCEPT !.state_caps = UpsertCap(db.state_caps, r.caps[r.i])])
              /\ Become(h, NextCap(r, r.i + 1))
         ELSE Read /\ Become(h, Throw(r, "SQLITE_CONSTRAINT"))
  /\ UNCHANGED <<now, crashed, requests, overridden, trip, reply>>

(***************************************************************************)
(* POST /leads and PATCH /leads/:id/status: single statements through      *)
(* db.query, on the same connection as the transactions.                   *)
(***************************************************************************)
CreateLead(state) ==
  /\ ~crashed
  /\ requests < MaxRequests
  /\ Len(db.leads) < Len(SampleStates) + MaxNewLeads
  /\ requests' = requests + 1
  /\ Write(InsertLead(db, state, now))
  /\ reply' = [NoReply EXCEPT !.op = "createLead"]
  /\ UNCHANGED <<now, req, crashed, overridden, trip>>

\* The list with an order status in it.
LeadStatusesAndPending == {"unassigned", "assigned", "fulfilled", "pending"}

LeadStatuses == {"unassigned", "assigned", "fulfilled"}

\* The status of the request body: a legal one, none ("") or another word.
StatusInputs == LeadStatuses \cup {"", "pending"}

\* A status that is missing or not one of the three: 400 before any
\* statement.  Otherwise UPDATE leads SET status = ? WHERE id = ?, and 404
\* when it changed no row.
UpdateLeadStatus(id, status) ==
  /\ ~crashed
  /\ requests < MaxRequests
  /\ requests' = requests + 1
  /\ IF status \notin LeadStatuses
     THEN /\ reply' = [NoReply EXCEPT !.op = "updateLeadStatus", !.id = id,
                                      !.status = status,
                                      !.error = "Invalid status"]
          /\ UNCHANGED <<db, journal, inTx, overridden>>
     ELSE /\ Write([db EXCEPT !.leads = SetLeadStatus(db.leads, id, status)])
          /\ overridden' = overridden \cup ({id} \cap DOMAIN db.leads)
          /\ reply' = [NoReply EXCEPT !.op = "updateLeadStatus", !.id = id,
                                      !.status = status,
                                      !.error = IF id \in DOMAIN db.leads
                                                THEN "" ELSE "Lead not found"]
  /\ UNCHANGED <<now, req, crashed, trip>>

(***************************************************************************)
(* Database.transaction: the end of the callback, and failures.            *)
(***************************************************************************)
\* The route's own formatting of the result throws when the row it returns
\* is undefined; the transaction has committed by then.
ResultOutcome(r) ==
  IF r.op \in {"createOrder", "fulfillOrder"} /\ r.order = NULL
  THEN "TypeError" ELSE "ok"

\* What the caller is told when the callback resolved: COMMIT fails when no
\* transaction is open any more, and the promise rejects with that error.
CommitOutcome(h) ==
  IF inTx THEN ResultOutcome(req[h]) ELSE "no transaction is active"

\* What the caller is told when the callback rejected: the callback's error,
\* or the error of a ROLLBACK with no transaction open.
RollbackOutcome(h) ==
  IF inTx THEN req[h].error ELSE "no transaction is active"

\* callback resolved: db.run('COMMIT'), then the response.
Commit(h) ==
  /\ ~crashed /\ req[h].pc = "commit"
  /\ db' = db
  /\ journal' = db
  /\ inTx' = FALSE
  /\ Become(h, Idle)
  /\ trip' = IF trip.on /\ trip.id = NULL /\ req[h].op = "createOrder"
             THEN [trip EXCEPT !.id = req[h].lastID,
                               !.leads = {req[h].assignedLeads[a] :
                                            a \in DOMAIN req[h].assignedLeads}]
             ELSE trip
  /\ UNCHANGED <<now, crashed, requests, overridden, reply>>

\* callback rejected: db.run('ROLLBACK'), which undoes every statement run
\* on the connection since the last successful BEGIN.
Rollback(h) ==
  /\ ~crashed /\ req[h].pc = "rollback"
  /\ db' = IF inTx THEN journal ELSE db
  /\ journal' = IF inTx THEN journal ELSE db
  /\ inTx' = FALSE
  /\ Become(h, Idle)
  /\ UNCHANGED <<now, crashed, requests, overridden, trip, reply>>

StatementPcs ==
  {"selectOrder", "selectCaps", "count", "selectLeads", "updateLead",
   "updateOrder", "updateLeads", "selectUpdated", "cancelOrder",
   "returnLeads", "deleteOrder", "upsert"}

TransactionOps == {"createOrder", "fulfillOrder", "oneTimeRule", "deleteOrder", "setCaps"}

\* if (err) rejectQuery(err): the statement a handler is about to run fails
\* and changes nothing.
StorageError(h) ==
  /\ ~crashed /\ req[h].pc \in StatementPcs
  /\ Read
  /\ Become(h, Throw(req[h], "storage error"))
  /\ UNCHANGED <<now, crashed, requests, overridden, trip, reply>>

\* The same for the first statement of a callback, right after BEGIN.
FirstStatementFails(h, op) ==
  /\ Ready(h)
  /\ BeginThenRead
  /\ Become(h, Throw([Idle EXCEPT !.op = op], "storage error"))
  /\ requests' = requests + 1 /\ UNCHANGED <<now, crashed, overridden, trip, reply>>

\* The error of a BEGIN that fails is emitted as an 'error' event with no
\* handler in these files: where nothing listens, the event ends the
\* process, the connection closes and SQLite rolls the open transaction back.
Crash ==
  /\ ~crashed /\ inTx
  /\ \E h \in Handlers : req[h].pc = "idle"
  /\ crashed' = TRUE
  /\ db' = journal
  /\ journal' = journal
  /\ inTx' = FALSE
  /\ req' = [h \in Handlers |-> Idle]
  /\ UNCHANGED <<now, requests, overridden, trip, reply>>

\* datetime("now") and CURRENT_TIMESTAMP move on.
Tick ==
  /\ ~crashed /\ now < MaxTime
  /\ now' = now + 1
  /\ UNCHANGED <<db, journal, inTx, req, crashed, requests, overridden, trip, reply>>

\* For the properties: a record of the first createOrder of a run, kept
\* when switched on: the leads table and the orders it found when it was
\* first called, its region list, and the id of its order and the leads it
\* assigned when it committed.
NoTrip ==
  [on |-> FALSE, before |-> <<>>, orders |-> {}, requested_states |-> NoStates,
   id |-> NULL, leads |-> {}]

Init ==
  /\ db \in InitialDbs
  /\ journal = db
  /\ inTx = FALSE
  /\ now = 1
  /\ req = [h \in Handlers |-> Idle]
  /\ crashed = FALSE
  /\ requests = 0
  /\ overridden = {}
  /\ trip = NoTrip
  /\ reply = NoReply

\* Every request but the manual status override.
Coordinated ==
  \/ \E h \in Handlers, c \in Customers, rs \in RequestedStates : CreateOrder(h, c, rs)
  \/ \E h \in Handlers : SelectOrder(h)
  \/ \E h \in Handlers : SelectCaps(h)
  \/ \E h \in Handlers : CountLeads(h)
  \/ \E h \in Handlers : SelectLeads(h)
  \/ \E h \in Handlers : UpdateLead(h)
  \/ \E h \in Handlers, id \in OrderIds : FulfillOrder(h, id)
  \/ \E h \in Handlers, id \in OrderIds, a \in {"fulfill", "cancel"} : OneTimeRule(h, id, a)
  \/ \E h \in Handlers : UpdateOrder(h)
  \/ \E h \in Handlers : UpdateLeads(h)
  \/ \E h \in Handlers : SelectUpdated(h)
  \/ \E h \in Handlers : CancelOrder(h)
  \/ \E h \in Handlers, id \in OrderIds : DeleteOrder(h, id)
  \/ \E h \in Handlers : ReturnToStock(h)
  \/ \E h \in Handlers : DeleteRow(h)
  \/ \E h \in Handlers, caps \in CapsBodies : SetCaps(h, caps)
  \/ \E h \in Handlers : Upsert(h)
  \/ \E s \in InputStates : CreateLead(s)
  \/ \E h \in Handlers : Commit(h)
  \/ \E h \in Handlers : Rollback(h)
  \/ \E h \in Handlers : StorageError(h)
  \/ \E h \in Handlers : FirstStatementFails(h, "createOrder")
  \/ Crash
  \/ Tick

\* The ids the override is tried on: the leads added since the sample
\* leads, and one id that matches no row.
OverrideIds == (Len(SampleStates) + 1)..(Len(db.leads) + 1)

Next ==
  \/ Coordinated
  \/ \E id \in OverrideIds, st \in StatusInputs : UpdateLeadStatus(id, st)

Spec == Init /\ [][Next]_vars

\* The requests that go through Database.transaction and POST /leads only.
SpecCoordinated == Init /\ [][Coordinated]_vars

\* Concurrent order creation alone, from a database whose cap rows are
\* positive: the store is within its caps, and no cap reads as the default.
InitRace ==
  /\ Init
  /\ \A s \in DOMAIN db.state_caps : db.state_caps[s] > 0

CreateOrders ==
  \/ \E h \in Handlers, c \in Customers, rs \in RequestedStates : CreateOrder(h, c, rs)
  \/ \E h \in Handlers : SelectOrder(h)
  \/ \E h \in Handlers : SelectCaps(h)
  \/ \E h \in Handlers : CountLeads(h)
  \/ \E h \in Handlers : SelectLeads(h)
  \/ \E h \in Handlers : UpdateLead(h)
  \/ \E h \in Handlers : Commit(h)
  \/ Crash

SpecRace == InitRace /\ [][CreateOrders]_vars

\* One request through Database.transaction at a time, with POST /leads and
\* the status override, which do not go through it, at any point.
Serial ==
  \/ \E c \in Customers, rs \in RequestedStates : CreateOrder(1, c, rs)
  \/ SelectOrder(1)
  \/ SelectCaps(1)
  \/ CountLeads(1)
  \/ SelectLeads(1)
  \/ UpdateLead(1)
  \/ \E id \in OrderIds : FulfillOrder(1, id)
  \/ \E id \in OrderIds, a \in {"fulfill", "cancel"} : OneTimeRule(1, id, a)
  \/ UpdateOrder(1)
  \/ UpdateLeads(1)
  \/ SelectUpdated(1)
  \/ CancelOrder(1)
  \/ \E id \in OrderIds : DeleteOrder(1, id)
  \/ ReturnToStock(1)
  \/ DeleteRow(1)
  \/ \E caps \in CapsBodies : SetCaps(1, caps)
  \/ Upsert(1)
  \/ \E s \in InputStates : CreateLead(s)
  \/ \E id \in OverrideIds, st \in StatusInputs : UpdateLeadStatus(id, st)
  \/ Commit(1)
  \/ Rollback(1)
  \/ StorageError(1)
  \/ FirstStatementFails(1, "createOrder")
  \/ Tick

SpecSerial == Init /\ [][Serial]_vars

\* POST /orders, DELETE of the order it created, and the same POST /orders
\* again, one after the other and nothing else: three requests.
InitRoundTrip ==
  /\ db \in InitialDbs
  /\ journal = db
  /\ inTx = FALSE
  /\ now = 1
  /\ req = [h \in Handlers |-> Idle]
  /\ crashed = FALSE
  /\ requests = MaxRequests - 3
  /\ overridden = {}
  /\ trip = [NoTrip EXCEPT !.on = TRUE]
  /\ reply = NoReply

RoundTrip ==
  \/ \E c \in Customers, rs \in RequestedStates :
       trip.id = NULL /\ CreateOrder(1, c, rs)
  \/ SelectOrder(1)
  \/ SelectCaps(1)
  \/ CountLeads(1)
  \/ SelectLeads(1)
  \/ UpdateLead(1)
  \/ trip.id \in DOMAIN db.orders /\ DeleteOrder(1, trip.id)
  \/ ReturnToStock(1)
  \/ DeleteRow(1)
  \/ /\ trip.id # NULL /\ trip.id \notin DOMAIN db.orders
     /\ \E c \in Customers : CreateOrder(1, c, trip.requested_states)
  \/ Commit(1)

SpecRoundTrip == InitRoundTrip /\ [][RoundTrip]_vars

\* POST /orders, and when it has committed the same POST /orders again, one
\* after the other and nothing else.
Repeat ==
  \/ \E c \in Customers, rs \in RequestedStates :
       trip.id = NULL /\ CreateOrder(1, c, rs)
  \/ SelectOrder(1)
  \/ SelectCaps(1)
  \/ CountLeads(1)
  \/ SelectLeads(1)
  \/ UpdateLead(1)
  \/ /\ trip.id # NULL
     /\ \E c \in Customers :
          ValidCustomer(c) /\ CreateOrder(1, c, trip.requested_states)
  \/ Commit(1)

SpecRepeat == InitRoundTrip /\ [][Repeat]_vars

\* POST /orders whose statements may fail, the same POST /orders again once
\* it has failed, and beside them a one_time_rule that finds its order
\* fulfilled already and writes nothing.
Retry ==
  \/ \E h \in Handlers, c \in Customers, rs \in RequestedStates :
       trip.before = <<>> /\ CreateOrder(h, c, rs)
  \/ \E h \in Handlers : SelectOrder(h)
  \/ \E h \in Handlers : SelectCaps(h)
  \/ \E h \in Handlers : CountLeads(h)
  \/ \E h \in Handlers : SelectLeads(h)
  \/ \E h \in Handlers : UpdateLead(h)
  \/ \E h \in Handlers : StorageError(h)
  \/ \E h \in Handlers : Rollback(h)
  \/ /\ trip.before # <<>> /\ trip.id = NULL
     /\ \A g \in Handlers : req[g].op # "createOrder"
     /\ \E h \in Handlers, c \in Customers :
          ValidCustomer(c) /\ CreateOrder(h, c, trip.requested_states)
  \/ \E h \in Handlers, id \in DOMAIN db.orders :
       db.orders[id].status = "fulfilled" /\ OneTimeRule(h, id, "fulfill")
  \/ \E h \in Handlers : Commit(h)

SpecRetry == InitRoundTrip /\ [][Retry]_vars

\* POST /orders alone, from a database in which WA has one unassigned lead
\* more than an order takes of a state in one entry, and no cap row.
InitBatch ==
  /\ db = WithLeads(FirstOrderFulfilled, "WA", [k \in 1..(BatchLimit + 1) |-> 1])
  /\ journal = db
  /\ inTx = FALSE
  /\ now = 1
  /\ req = [h \in Handlers |-> Idle]
  /\ crashed = FALSE
  /\ requests = 0
  /\ overridden = {}
  /\ trip = NoTrip
  /\ reply = NoReply

Batch ==
  \/ \E c \in Customers, rs \in RequestedStates : CreateOrder(1, c, rs)
  \/ SelectOrder(1)
  \/ SelectCaps(1)
  \/ CountLeads(1)
  \/ SelectLeads(1)
  \/ UpdateLead(1)
  \/ Commit(1)

SpecBatch == InitBatch /\ [][Batch]_vars

\* POST /orders, and when it has committed, PATCH fulfill of its order by
\* two requests at a time.
FulfilRace ==
  \/ \E c \in Customers, rs \in RequestedStates :
       trip.before = <<>> /\ CreateOrder(1, c, rs)
  \/ SelectOrder(1)
  \/ SelectCaps(1)
  \/ CountLeads(1)
  \/ SelectLeads(1)
  \/ UpdateLead(1)
  \/ \E h \in Handlers : trip.id \in DOMAIN db.orders /\ FulfillOrder(h, trip.id)
  \/ \E h \in Handlers : UpdateOrder(h)
  \/ \E h \in Handlers : UpdateLeads(h)
  \/ \E h \in Handlers : SelectUpdated(h)
  \/ \E h \in Handlers : Commit(h)
  \/ \E h \in Handlers : Rollback(h)
  \/ Tick

SpecFulfilRace == InitRoundTrip /\ [][FulfilRace]_vars

\* POST /orders, and beside it PATCH fulfill of an order that does not
\* exist, which ends in ROLLBACK: three requests.
Reuse ==
  \/ \E h \in Handlers, c \in Customers, rs \in RequestedStates : CreateOrder(h, c, rs)
  \/ \E h \in Handlers : SelectOrder(h)
  \/ \E h \in Handlers : SelectCaps(h)
  \/ \E h \in Handlers : CountLeads(h)
  \/ \E h \in Handlers : SelectLeads(h)
  \/ \E h \in Handlers : UpdateLead(h)
  \/ \E h \in Handlers, id \in OrderIds \ DOMAIN db.orders : FulfillOrder(h, id)
  \/ \E h \in Handlers : Commit(h)
  \/ \E h \in Handlers : Rollback(h)

SpecReuse == InitRoundTrip /\ [][Reuse]_vars

\* POST /orders, and beside it DELETE of an order: three requests.
Beside ==
  \/ \E c \in Customers, rs \in RequestedStates :
       trip.before = <<>> /\ CreateOrder(1, c, rs)
  \/ SelectOrder(1)
  \/ SelectCaps(1)
  \/ CountLeads(1)
  \/ SelectLeads(1)
  \/ UpdateLead(1)
  \/ \E id \in DOMAIN db.orders : DeleteOrder(2, id)
  \/ ReturnToStock(2)
  \/ DeleteRow(2)
  \/ \E h \in Handlers : Commit(h)
  \/ \E h \in Handlers : Rollback(h)

SpecBeside == InitRoundTrip /\ [][Beside]_vars

\* The requests that go through Database.transaction for an order, side by
\* side, every statement answered in the end: the callback of a statement
\* that was sent is called, and the request goes on to its COMMIT or ROLLBACK.
Step(h) ==
  \/ SelectOrder(h)
  \/ SelectCaps(h)
  \/ CountLeads(h)
  \/ SelectLeads(h)
  \/ UpdateLead(h)
  \/ UpdateOrder(h)
  \/ UpdateLeads(h)
  \/ SelectUpdated(h)
  \/ CancelOrder(h)
  \/ ReturnToStock(h)
  \/ DeleteRow(h)
  \/ Commit(h)
  \/ Rollback(h)

Boundaries ==
  \/ \E h \in Handlers, c \in Customers, rs \in RequestedStates : CreateOrder(h, c, rs)
  \/ \E h \in Handlers, id \in OrderIds : FulfillOrder(h, id)
  \/ \E h \in Handlers, id \in OrderIds : OneTimeRule(h, id, "cancel")
  \/ \E h \in Handlers, id \in OrderIds : DeleteOrder(h, id)
  \/ \E h \in Handlers : Step(h)
  \/ Crash

SpecAnswered ==
  Init /\ [][Boundaries]_vars /\ \A h \in Handlers : WF_vars(Step(h))

(***************************************************************************)
(* Properties.                                                             *)
(***************************************************************************)
\* C1: in every reachable state, for every region R, the number of leads of
\* R with status Assigned is at most cap(R), the configured entry of R or 10
\* when R has none.  Stated here of the durable store, and for the regions
\* whose cap is not negative, the ones where the bound can be met at all.
CapInvariant ==
  LET d == Committed
      cap(R) == IF R \in DOMAIN d.state_caps THEN d.state_caps[R] ELSE 10
  IN  \A R \in {d.leads[k].state : k \in DOMAIN d.leads} :
        cap(R) >= 0 => CountAssigned(d.leads, R) <= cap(R)

\* C2: when createOrder invocations on the same region interleave, starting
\* from a store within its caps, the durable store is within its caps at
\* every point: no two of them act on the same count of Assigned leads.
CommittedWithinCaps ==
  \A R \in {Committed.leads[k].state : k \in DOMAIN Committed.leads} :
    CountAssigned(Committed.leads, R) <=
      (IF R \in DOMAIN Committed.state_caps THEN Committed.state_caps[R] ELSE 10)

\* C3: the multi-step operations are isolated from one another; in
\* particular the commit of one never makes the partial writes of another
\* durable: the order of a createOrder that has not committed is not in the
\* durable store.
NoDirtyCommit ==
  \A h \in Handlers :
    (req[h].op = "createOrder" /\ req[h].pc # "idle" /\ req[h].lastID # NULL)
    => req[h].lastID \notin DOMAIN Committed.orders

\* C4: when a store step of an operation fails, the store is as it was
\* before the operation began: once a failed createOrder has rolled back,
\* neither its order row nor a lead assigned to it is left.
FailedCreateOrderLeavesNothing ==
  [][\A h \in Handlers :
       (/\ req[h].op = "createOrder" /\ req[h].lastID # NULL
        /\ req[h].pc = "rollback" /\ req'[h].pc = "idle" /\ ~crashed')
       => /\ req[h].lastID \notin DOMAIN db'.orders
          /\ \A k \in DOMAIN db'.leads : db'.leads[k].order_id # req[h].lastID]_vars

\* C5: when the configured cap of a region is zero or negative, createOrder
\* assigns no lead of that region: no createOrder is about to assign a lead
\* of a region whose cap row, as it read it, is zero or negative.
NonPositiveCapAssignsNothing ==
  \A h \in Handlers :
    At(h, "createOrder", "updateLead") =>
      LET state == req[h].states[req[h].i]
      IN  state \in DOMAIN req[h].stateCaps => req[h].stateCaps[state] > 0

\* C6: createOrder with an empty region sequence behaves like createOrder
\* with none: once the region list is resolved, both go over CA, NY, TX, FL,
\* IL in that order.
EmptyListMeansDefault ==
  \A h \in Handlers :
    (/\ req[h].op = "createOrder"
     /\ req[h].pc \in {"count", "selectLeads", "updateLead", "commit"}
     /\ req[h].requested_states.list = <<>>)
    => req[h].states = <<"CA", "NY", "TX", "FL", "IL">>

\* C7: the leads createOrder selects for a region are exactly the toAssign
\* first Unassigned leads of the region by created timestamp, then id, also
\* when several leads share a created timestamp.
SelectsOldestThenLowestId ==
  [][\A h \in Handlers :
       (At(h, "createOrder", "selectLeads") /\ req'[h].pc = "updateLead")
       => LET U == Unassigned(db.leads, req[h].states[req[h].i])
              Before(a, b) ==
                \/ db.leads[a].created_at < db.leads[b].created_at
                \/ db.leads[a].created_at = db.leads[b].created_at /\ a < b
          IN  {req'[h].rows[a] : a \in DOMAIN req'[h].rows} =
                {u \in U : Cardinality({a \in U : Before(a, u)})
                             < req[h].leadsToAssign}]_vars

\* C8, as stated: in every reachable state the order reference of every
\* lead is non-null if and only if its status is Assigned or Fulfilled,
\* updateLeadStatus included.
EveryLeadRefIffStatus ==
  \A k \in DOMAIN db.leads :
    (db.leads[k].order_id # NULL)
      <=> (db.leads[k].status \in {"assigned", "fulfilled"})

\* C8, amended: in every reachable state the order reference of every lead
\* whose status updateLeadStatus has never set is non-null if and only if
\* its status is Assigned or Fulfilled.
AllocatedLeadRefIffStatus ==
  \A k \in DOMAIN db.leads \ overridden :
    (db.leads[k].order_id # NULL)
      <=> (db.leads[k].status \in {"assigned", "fulfilled"})

\* A lead that createOrder assigned stands next to one that updateLeadStatus
\* has set.
AssignedBesideOverridden ==
  /\ overridden # {}
  /\ \E k \in DOMAIN db.leads \ overridden :
       /\ db.leads[k].status = "assigned"
       /\ db.leads[k].order_id \in DOMAIN db.orders

\* C9: in every reachable state, every lead whose order reference points to
\* an order with status Fulfilled has status Fulfilled.  Stated of the
\* durable store.
FulfilledOrderLeadsFulfilled ==
  \A k \in DOMAIN Committed.leads :
    LET o == Committed.leads[k].order_id
    IN  (o \in DOMAIN Committed.orders /\ Committed.orders[o].status = "fulfilled")
        => Committed.leads[k].status = "fulfilled"

\* C10: in every reachable state, every non-null order reference of a lead
\* points to an order that exists and is not Cancelled.  Stated of the
\* durable store.
NoRefToCancelledOrDeleted ==
  \A k \in DOMAIN Committed.leads :
    LET o == Committed.leads[k].order_id
    IN  o # NULL => /\ o \in DOMAIN Committed.orders
                    /\ Committed.orders[o].status # "cancelled"

\* C11: in every reachable state the fulfilled timestamp of every order is
\* set if and only if its status is Fulfilled.  Stated of the durable store.
FulfilledAtIffFulfilled ==
  \A o \in DOMAIN Committed.orders :
    (Committed.orders[o].fulfilled_at # NULL)
      <=> (Committed.orders[o].status = "fulfilled")

\* C12: Fulfilled and Cancelled are terminal: an order that is Fulfilled or
\* Cancelled in the durable store keeps that status for as long as it
\* exists, so the only changes of status are Pending to Fulfilled and
\* Pending to Cancelled.
FulfilledAndCancelledTerminal ==
  [][\A o \in DOMAIN Committed.orders \cap DOMAIN Committed'.orders :
       Committed.orders[o].status \in {"fulfilled", "cancelled"}
       => Committed'.orders[o].status = Committed.orders[o].status]_vars

\* C13: a Fulfilled lead changes only through updateLeadStatus: a lead that
\* updateLeadStatus has not set and that is Fulfilled in the durable store
\* keeps its status and its order reference at every step.
FulfilledLeadKept ==
  [][\A k \in (DOMAIN Committed.leads \cap DOMAIN Committed'.leads) \ overridden' :
       Committed.leads[k].status = "fulfilled"
       => /\ Committed'.leads[k].status = "fulfilled"
          /\ Committed'.leads[k].order_id = Committed.leads[k].order_id]_vars

\* C15: fulfilling an order that is already Fulfilled is rejected through
\* every entry point: the callback of the request throws, so that the
\* caller is given a failure, and the store is unchanged.
RefulfilRejected ==
  [][\A h \in Handlers :
       (/\ req[h].pc = "idle"
        /\ \/ req'[h].op = "fulfillOrder"
           \/ req'[h].op = "oneTimeRule" /\ req'[h].action # "cancel"
        /\ req'[h].id \in DOMAIN db.orders
        /\ db.orders[req'[h].id].status = "fulfilled")
       => (req'[h].pc = "rollback" /\ db' = db)]_vars

\* C16: cancelOrder (one_time_rule cancel) on an order that is already
\* Cancelled is rejected: the callback of the request throws, so that the
\* caller is given a failure, and the store is unchanged.
RecancelRejected ==
  [][\A h \in Handlers :
       (/\ req[h].pc = "idle"
        /\ req'[h].op = "oneTimeRule" /\ req'[h].action # "fulfill"
        /\ req'[h].id \in DOMAIN db.orders
        /\ db.orders[req'[h].id].status = "cancelled")
       => (req'[h].pc = "rollback" /\ db' = db)]_vars

\* C14: after fulfillOrder(o) succeeds on an order that was not Fulfilled,
\* o is Fulfilled, its fulfilled timestamp is set, every lead that
\* references o is Fulfilled, and the leads that referenced o when the call
\* began still do.
FulfilCascade ==
  [][\A h \in Handlers :
       (/\ req[h].pc = "commit" /\ req'[h].pc = "idle" /\ ~crashed'
        /\ CommitOutcome(h) = "ok"
        /\ \/ req[h].op = "fulfillOrder"
           \/ req[h].op = "oneTimeRule"
              /\ req[h].message = "Order fulfilled successfully")
       => LET o == req[h].id
          IN  /\ o \in DOMAIN db'.orders
              /\ db'.orders[o].status = "fulfilled"
              /\ db'.orders[o].fulfilled_at # NULL
              /\ \A k \in DOMAIN db'.leads :
                   db'.leads[k].order_id = o => db'.leads[k].status = "fulfilled"
              /\ \A k \in req[h].attached :
                   k \in DOMAIN db'.leads /\ db'.leads[k].order_id = o]_vars

\* C17: fulfillOrder, cancelOrder and deleteOrder on an order id that does
\* not exist fail with NotFound and leave every order, lead and cap as it
\* is: the steps of such a call, its ROLLBACK included, change no table.
NotFoundChangesNothing ==
  [][\A h \in Handlers :
       /\ (req[h].pc = "idle" /\ req'[h].error = "Order not found")
          => db' = db
       /\ (/\ req[h].pc = "rollback" /\ req[h].error = "Order not found"
           /\ req'[h].pc = "idle" /\ ~crashed')
          => (RollbackOutcome(h) = "Order not found" /\ db' = db)]_vars

\* C18: after deleteOrder(o) succeeds, the order o no longer exists, no lead
\* references o, and every lead that referenced o when the call began is
\* Unassigned with a null order reference.
DeleteReverts ==
  [][\A h \in Handlers :
       (/\ req[h].pc = "commit" /\ req'[h].pc = "idle" /\ ~crashed'
        /\ CommitOutcome(h) = "ok"
        /\ req[h].op = "deleteOrder")
       => LET o == req[h].id
          IN  /\ o \notin DOMAIN db'.orders
              /\ \A k \in DOMAIN db'.leads : db'.leads[k].order_id # o
              /\ \A k \in req[h].attached :
                   /\ k \in DOMAIN db'.leads
                   /\ db'.leads[k].status = "unassigned"
                   /\ db'.leads[k].order_id = NULL]_vars

\* C19: after cancelOrder(o) succeeds on an order that was not Cancelled,
\* the order o exists with status Cancelled, and every lead that referenced
\* o when the call began is Unassigned with a null order reference.
CancelReverts ==
  [][\A h \in Handlers :
       (/\ req[h].pc = "commit" /\ req'[h].pc = "idle" /\ ~crashed'
        /\ CommitOutcome(h) = "ok"
        /\ req[h].op = "oneTimeRule"
        /\ req[h].message = "Order cancelled and leads returned to stock")
       => LET o == req[h].id
          IN  /\ o \in DOMAIN db'.orders
              /\ db'.orders[o].status = "cancelled"
              /\ \A k \in req[h].attached :
                   /\ k \in DOMAIN db'.leads
                   /\ db'.leads[k].status = "unassigned"
                   /\ db'.leads[k].order_id = NULL]_vars

\* C20: round trip: when createOrder assigns the leads L1..Ln, the order is
\* deleted with nothing in between, and createOrder is run again with the
\* same regions, it assigns exactly L1..Ln, and every other lead has the
\* status and the order-reference-nullness it had before the first run.
RoundTripReassigns ==
  \A h \in Handlers :
    (/\ trip.id # NULL /\ trip.id \notin DOMAIN db.orders
     /\ req[h].op = "createOrder" /\ req[h].pc = "commit")
    => /\ {req[h].assignedLeads[a] : a \in DOMAIN req[h].assignedLeads} = trip.leads
       /\ \A k \in DOMAIN db.leads \ trip.leads :
            /\ db.leads[k].status = trip.before[k].status
            /\ (db.leads[k].order_id = NULL) <=> (trip.before[k].order_id = NULL)

\* C21: a createOrder assigns the first lead of a state it requests only
\* while the assigned leads of that state are fewer than its cap (the row of
\* state_caps, 10 without a row): at or above the cap it assigns none; and a
\* createOrder that reaches its COMMIT without any lead has a pending order
\* to return.
AtCapAssignsNothing ==
  [][\A h \in Handlers :
       /\ (/\ At(h, "createOrder", "updateLead")
           /\ req[h].j = 1
           /\ req'[h] # req[h]
           /\ db'.leads # db.leads)
          => LET state == req[h].states[req[h].i]
                 cap == IF state \in DOMAIN db.state_caps
                        THEN db.state_caps[state] ELSE DefaultCap
             IN  CountAssigned(db.leads, state) < cap
       /\ (At(h, "createOrder", "commit") /\ req[h].assignedLeads = <<>>)
          => /\ req[h].order \in DOMAIN db.orders
             /\ db.orders[req[h].order].status = "pending"]_vars

\* C22: a createOrder request whose body lacks the customer name or the
\* customer email never begins a transaction: it is answered with the
\* validation error, and the tables, the durable tables and the open
\* transaction (if another request has one) are what they were, so that no
\* order is inserted and no lead modified.
InvalidOrderRejected ==
  [][/\ \A h \in Handlers :
          (req[h].pc = "idle" /\ req'[h].pc = "selectOrder")
          => {"customer_name", "customer_email"} \subseteq req'[h].customer
     /\ (requests' = requests + 1 /\ req' = req /\ reply'.op = "createOrder")
        => /\ ~({"customer_name", "customer_email"} \subseteq reply'.customer)
           /\ reply'.error = "Customer name and email are required"
           /\ db' = db /\ journal' = journal /\ inTx' = inTx]_vars

\* A request with a name and no email was rejected while an unassigned lead
\* was there to take and another createOrder had its order row inserted.
RejectedBesideOpenOrder ==
  /\ reply.op = "createOrder" /\ reply.customer = {"customer_name"}
  /\ reply.error = "Customer name and email are required"
  /\ \E k \in DOMAIN db.leads : db.leads[k].status = "unassigned"
  /\ \E h \in Handlers : At(h, "createOrder", "selectOrder") /\ inTx

\* C23: a lead status update whose status is absent or is not one of
\* unassigned, assigned, fulfilled is answered 'Invalid status' and changes no
\* lead; one with a legal status and an id that matches no lead is answered
\* 'Lead not found' and changes nothing.
StatusUpdateValidated ==
  [][(requests' = requests + 1 /\ req' = req /\ reply'.op = "updateLeadStatus")
     => /\ reply'.status \notin {"unassigned", "assigned", "fulfilled"}
           => /\ reply'.error = "Invalid status"
              /\ db' = db /\ journal' = journal
        /\ (/\ reply'.status \in {"unassigned", "assigned", "fulfilled"}
            /\ reply'.id \notin DOMAIN db.leads)
           => /\ reply'.error = "Lead not found"
              /\ db' = db /\ journal' = journal]_vars

\* The status 'pending' was refused for a lead that exists and is unassigned.
IllegalStatusRefused ==
  /\ reply.op = "updateLeadStatus" /\ reply.status = "pending"
  /\ reply.error = "Invalid status"
  /\ reply.id \in DOMAIN db.leads
  /\ db.leads[reply.id].status = "unassigned"

\* C24: a lead status update of a lead that exists changes the status of the
\* lead only along an edge of the lead state machine (unassigned to assigned,
\* assigned to fulfilled, assigned to unassigned, fulfilled to unassigned);
\* for any other pair of current and requested status the lead keeps its
\* status.
StatusUpdateFollowsEdges ==
  [][(/\ requests' = requests + 1 /\ req' = req
      /\ reply'.op = "updateLeadStatus"
      /\ reply'.id \in DOMAIN db.leads)
     => \/ <<db.leads[reply'.id].status, reply'.status>> \in
             {<<"unassigned", "assigned">>, <<"assigned", "fulfilled">>,
              <<"assigned", "unassigned">>, <<"fulfilled", "unassigned">>}
        \/ db'.leads[reply'.id].status = db.leads[reply'.id].status]_vars

\* C25: setCaps is an upsert: none of its statements is refused by the
\* table, whether the region had a row or not; and when it reaches its COMMIT
\* every region of the map has the cap of the map, and every other region the
\* row, or no row, that it had at BEGIN.
SetCapsUpserts ==
  \A h \in Handlers :
    req[h].op = "setCaps"
    => /\ req[h].error # "SQLITE_CONSTRAINT"
       /\ req[h].pc = "commit"
          => LET m == {req[h].caps[a].state : a \in DOMAIN req[h].caps}
             IN  /\ \A a \in DOMAIN req[h].caps :
                      /\ req[h].caps[a].state \in DOMAIN db.state_caps
                      /\ db.state_caps[req[h].caps[a].state] = req[h].caps[a].max_leads
                 /\ \A r \in (DOMAIN db.state_caps \cup DOMAIN journal.state_caps) \ m :
                      /\ r \in DOMAIN db.state_caps
                      /\ r \in DOMAIN journal.state_caps
                      /\ db.state_caps[r] = journal.state_caps[r]

\* C26: one_time_rule with action fulfill has the outcome of fulfill_order
\* (and of PATCH /orders/:id/fulfill, the same statements and guards) on the
\* same order in the same state: it fails exactly when the guards of
\* fulfill_order throw, and goes on to the same two UPDATEs otherwise.
OneTimeRuleFulfilsAsFulfillOrder ==
  [][\A h \in Handlers :
       (/\ req[h].pc = "idle" /\ req'[h].op = "oneTimeRule"
        /\ req'[h].action = "fulfill")
       => IF FulfillGuards(db.orders, req'[h].id) # ""
          THEN req'[h].pc = "rollback"
          ELSE req'[h].pc = "updateOrder"]_vars

\* C27: creating an order is idempotent: once a createOrder has committed
\* its order, the same request again leaves the durable tables with no order
\* beyond that one and with no lead on a later order.
SecondCreateOrderAddsNothing ==
  trip.id # NULL
  => /\ \A o \in DOMAIN Committed.orders : o <= trip.id
     /\ \A k \in DOMAIN Committed.leads : Committed.leads[k].order_id <= trip.id

\* C28: retrying is safe: when a createOrder that failed with a storage
\* error is called again and commits, the durable tables are those of one
\* successful call from the state the first call found: the orders it found
\* and the one order of the call that committed, and no lead changed but
\* the leads assigned to that order.
RetryEqualsOneCall ==
  trip.id # NULL
  => /\ DOMAIN Committed.orders = trip.orders \cup {trip.id}
     /\ \A k \in DOMAIN trip.before :
          Committed.leads[k] # trip.before[k]
          => k \in trip.leads /\ Committed.leads[k].order_id = trip.id

\* C29: for each entry of its region list a createOrder assigns
\* min(max(0, cap - a), 5, u) leads of the region, where cap is the row of
\* state_caps or 10 without a row, a the assigned and u the unassigned leads
\* of the region at that point: it skips the selection only when that number
\* is 0, and the rows it selects to assign are that many.
AssignsSlotsBatchOrStock ==
  [][\A h \in Handlers :
       (/\ req[h].op = "createOrder" /\ req[h].pc \in {"count", "selectLeads"}
        /\ req'[h] # req[h])
       => LET state == req[h].states[req[h].i]
              cap == IF state \in DOMAIN db.state_caps
                     THEN db.state_caps[state] ELSE DefaultCap
              a == CountAssigned(db.leads, state)
              u == Cardinality(Unassigned(db.leads, state))
              n == Min(Min(Max(0, cap - a), BatchLimit), u)
          IN  /\ (req[h].pc = "count" /\ req'[h].pc \in {"count", "commit"})
                 => n = 0
              /\ (/\ req[h].pc = "selectLeads"
                  /\ req'[h].pc \in {"count", "commit", "updateLead"})
                 => Len(req'[h].rows) = n]_vars

\* C30: no lead is allocated to two orders: the leads two createOrders in
\* flight have pushed to their results are disjoint, and when a createOrder
\* is at its COMMIT every lead of its result is assigned and references its
\* order.
NoLeadInTwoOrders ==
  LET Returned(h) == {req[h].assignedLeads[a] : a \in DOMAIN req[h].assignedLeads}
  IN  /\ \A h, g \in Handlers :
           (h # g /\ req[h].op = "createOrder" /\ req[g].op = "createOrder")
           => Returned(h) \cap Returned(g) = {}
      /\ \A h \in Handlers :
           At(h, "createOrder", "commit")
           => \A k \in Returned(h) :
                /\ db.leads[k].status = "assigned"
                /\ db.leads[k].order_id = req[h].order

\* C31: one order receives at most 5 leads of any one region: the leads a
\* createOrder has pushed to its result hold no more than 5 of a region,
\* whatever its region list, one that names a region twice included.
AtMostFivePerRegion ==
  \A h \in Handlers :
    req[h].op = "createOrder"
    => \A region \in {db.leads[k].state : k \in DOMAIN db.leads} :
         Cardinality({a \in DOMAIN req[h].assignedLeads :
                        db.leads[req[h].assignedLeads[a]].state = region}) <= 5

\* C32: the count a createOrder reads for an entry of its region list
\* includes the leads it assigned for earlier entries: when its list names a
\* region more than once and the assigned leads of the region were no more
\* than the cap before the call, they are no more than the cap at its COMMIT.
RepeatedRegionWithinCap ==
  \A h \in Handlers :
    (At(h, "createOrder", "commit") /\ trip.on /\ trip.id = NULL)
    => \A a, b \in DOMAIN req[h].states :
         (a < b /\ req[h].states[a] = req[h].states[b])
         => LET state == req[h].states[a]
                cap == IF state \in DOMAIN db.state_caps
                       THEN db.state_caps[state] ELSE DefaultCap
            IN  CountAssigned(trip.before, state) <= cap
                => CountAssigned(db.leads, state) <= cap

\* C33: of two fulfillOrders of the same pending order in flight together
\* only one gets past the guards, the other is thrown out as already
\* fulfilled; and the UPDATE that writes fulfilled_at runs on an order that is
\* not fulfilled yet, so that the timestamp is written once.
OneFulfilmentPerOrder ==
  [][/\ \A h, g \in Handlers :
          (/\ h # g
           /\ req[h].op = "fulfillOrder" /\ req[g].op = "fulfillOrder"
           /\ req[h].id = req[g].id)
          => \/ req[h].pc \in {"idle", "rollback"}
             \/ req[g].pc \in {"idle", "rollback"}
     /\ \A h \in Handlers :
          (/\ req[h].op = "fulfillOrder" /\ req[h].pc = "updateOrder"
           /\ req'[h].pc = "updateLeads")
          => db.orders[req[h].id].status # "fulfilled"]_vars

\* C34: the INSERT of a createOrder adds exactly one order, pending and
\* without a fulfilled timestamp, under an id that no order has and that no
\* lead references, so that no lead left by an earlier order is attached to
\* the new one.
NewOrderIsFresh ==
  [][\A h \in Handlers :
       (req[h].pc = "idle" /\ req'[h].pc = "selectOrder")
       => LET id == req'[h].lastID
          IN  /\ id \notin DOMAIN db.orders
              /\ DOMAIN db'.orders = DOMAIN db.orders \cup {id}
              /\ \A o \in DOMAIN db.orders : db'.orders[o] = db.orders[o]
              /\ db'.orders[id].status = "pending"
              /\ db'.orders[id].fulfilled_at = NULL
              /\ \A k \in DOMAIN db.leads : db.leads[k].order_id # id]_vars

\* C35: a lead status update with a legal status changes the status of its
\* lead and nothing else: the order reference, the region and the creation
\* time of that lead, every other lead, every order, the order sequence and
\* every cap are what they were.
StatusUpdateChangesStatusOnly ==
  [][(/\ requests' = requests + 1 /\ req' = req
      /\ reply'.op = "updateLeadStatus"
      /\ reply'.status \in {"unassigned", "assigned", "fulfilled"})
     => /\ db'.orders = db.orders
        /\ db'.order_seq = db.order_seq
        /\ db'.state_caps = db.state_caps
        /\ DOMAIN db'.leads = DOMAIN db.leads
        /\ \A k \in DOMAIN db.leads :
             db'.leads[k] = IF k = reply'.id
                            THEN [db.leads[k] EXCEPT !.status = reply'.status]
                            ELSE db.leads[k]]_vars

\* A lead that an order holds was set to unassigned and still references the
\* order.
ReturnedByHandKeepsRef ==
  /\ reply.op = "updateLeadStatus" /\ reply.error = ""
  /\ reply.status = "unassigned"
  /\ reply.id \in DOMAIN db.leads
  /\ db.leads[reply.id].status = "unassigned"
  /\ db.leads[reply.id].order_id \in DOMAIN db.orders

\* C36: a step of createOrder changes only leads that were unassigned when
\* the request was made and whose region is one of the regions it resolved
\* from its list; the orders that were there before the request and the caps
\* stay as they were.
CreateOrderTakesFromStockOnly ==
  [][(/\ trip.before # <<>> /\ trip.id = NULL
      /\ req[1].op = "createOrder" /\ req'[1] # req[1])
     => LET states == ResolveStates(trip.requested_states)
        IN  /\ DOMAIN db'.leads = DOMAIN db.leads
            /\ \A k \in DOMAIN db.leads :
                 db'.leads[k] # db.leads[k]
                   => /\ k \in DOMAIN trip.before
                      /\ trip.before[k].status = "unassigned"
                      /\ \E i \in DOMAIN states :
                           states[i] = trip.before[k].state
            /\ \A o \in trip.orders :
                 o \in DOMAIN db.orders
                   => o \in DOMAIN db'.orders /\ db'.orders[o] = db.orders[o]
            /\ db'.state_caps = db.state_caps]_vars

\* C37: a step of fulfillOrder, cancelOrder or deleteOrder of order o changes
\* only order o and leads that referenced o when the request was made (a
\* rollback: leads that reference o once it is done); it adds and removes no
\* lead, and every other order and every cap stay as they were.
OrderRequestTouchesItsOwn ==
  [][\A h \in Handlers :
       (/\ req[h].op \in {"fulfillOrder", "oneTimeRule", "deleteOrder"}
        /\ req'[h] # req[h] /\ ~crashed')
       => /\ DOMAIN db'.leads = DOMAIN db.leads
          /\ \A k \in DOMAIN db.leads :
               db'.leads[k] # db.leads[k]
                 => IF req[h].pc = "rollback"
                    THEN db'.leads[k].order_id = req[h].id
                    ELSE k \in req[h].attached
          /\ \A o \in (DOMAIN db.orders \cup DOMAIN db'.orders) \ {req[h].id} :
               /\ o \in DOMAIN db.orders /\ o \in DOMAIN db'.orders
               /\ db'.orders[o] = db.orders[o]
          /\ db'.state_caps = db.state_caps]_vars

\* C38: a request for createOrder, fulfillOrder, cancelOrder or deleteOrder
\* that has started comes in the end to its COMMIT or its ROLLBACK and
\* answers its caller, whatever the other requests do: its handler is free
\* again and the process is alive.
EveryBoundaryEnds ==
  \A h \in Handlers :
    (req[h].pc # "idle") ~> (req[h].pc = "idle" /\ ~crashed)

\* C39: leads are conserved.  No step removes a lead or changes the region
\* or the creation time of one; the only step that adds a lead is createLead,
\* and the lead it adds is unassigned and references no order.
LeadsConserved ==
  [][/\ DOMAIN db.leads \subseteq DOMAIN db'.leads
     /\ \A k \in DOMAIN db.leads :
          /\ db'.leads[k].state = db.leads[k].state
          /\ db'.leads[k].created_at = db.leads[k].created_at
     /\ \A k \in DOMAIN db'.leads \ DOMAIN db.leads :
          /\ reply'.op = "createLead" /\ requests' = requests + 1
          /\ db'.leads[k].status = "unassigned"
          /\ db'.leads[k].order_id = NULL]_vars

====
